---- MODULE Spec2Model ----
(***************************************************************************)
(* Security-Validator: the two header analyzers, checkCookies              *)
(* (src/validators/cookie-checker.js) and checkHSTS (src/unnamed/part_000).*)
(*                                                                         *)
(* Representation.  A JavaScript string that the code inspects (the        *)
(* domain, a Set-Cookie value, the HSTS header, a cookie name, a raw       *)
(* excerpt) is the sequence of its UTF-16 code units, each a number, as    *)
(* the engine holds it.  A string the code only puts out from its own      *)
(* literals and numbers (a status, a message, an issue text) is a TLA+     *)
(* string, built with \o the way the code builds it.  A JavaScript value   *)
(* that need not be a string is a record with a type field.  A number the  *)
(* code computes (maxAge, maxAgeDays) is a double: its exact value as      *)
(* decimal digits, or Infinity; a count (an array length, an index) is an  *)
(* integer.                                                                *)
(***************************************************************************)
EXTENDS Integers, Sequences, FiniteSets, TLC

VARIABLES pc, fn, domain, url, fetchCount, response, failure, result

vars == <<pc, fn, domain, url, fetchCount, response, failure, result>>

----------------------------------------------------------------------------
(* Bounds of the model.                                                    *)

\* most Set-Cookie occurrences in one response
MaxCookies == 2
\* a long Set-Cookie value is up to this many characters over the raw limit
MaxOver == 2

----------------------------------------------------------------------------
(* JavaScript string primitives, as the engine computes them.              *)

\* the code units String.prototype.trim strips: ECMAScript WhiteSpace
\* (TAB, VT, FF, SP, NBSP, ZWNBSP and the Unicode space separators) and
\* LineTerminator (LF, CR, LS, PS)
WhiteSpace ==
    { 9, 10, 11, 12, 13, 32, 160, 5760, 8232, 8233, 8239, 8287, 12288, 65279 }
        \cup 8192..8202

\* the decimal digits \d and parseInt accept: '0'..'9'
IsDigit(u) == 48 <= u /\ u <= 57

IsHighSurrogate(u) == 55296 <= u /\ u <= 56319
IsLowSurrogate(u) == 56320 <= u /\ u <= 57343

\* the code points of a code-unit sequence: a surrogate pair is one code
\* point, a lone surrogate stands for itself
RECURSIVE codePoints(_)
codePoints(s) ==
    IF s = <<>> THEN <<>>
    ELSE IF Len(s) >= 2 /\ IsHighSurrogate(s[1]) /\ IsLowSurrogate(s[2])
    THEN <<65536 + (s[1] - 55296) * 1024 + (s[2] - 56320)>>
             \o codePoints(SubSeq(s, 3, Len(s)))
    ELSE <<s[1]>> \o codePoints(Tail(s))

\* the code units of one code point
codeUnitsOf(cp) ==
    IF cp >= 65536
    THEN <<55296 + ((cp - 65536) \div 1024), 56320 + ((cp - 65536) % 1024)>>
    ELSE <<cp>>

\* Unicode simple lower-case mapping above ASCII: <<first, last, step,
\* offset>> maps first, first + step, ..., last to itself + offset
LowerRanges ==
    {
      <<192, 214, 1, 32>>, <<216, 222, 1, 32>>, <<256, 302, 2, 1>>, <<306, 310, 2, 1>>,
      <<313, 327, 2, 1>>, <<330, 374, 2, 1>>, <<376, 376, 1, -121>>, <<377, 381, 2, 1>>,
      <<385, 385, 1, 210>>, <<386, 388, 2, 1>>, <<390, 390, 1, 206>>, <<391, 391, 1, 1>>,
      <<393, 394, 1, 205>>, <<395, 395, 1, 1>>, <<398, 398, 1, 79>>, <<399, 399, 1, 202>>,
      <<400, 400, 1, 203>>, <<401, 401, 1, 1>>, <<403, 403, 1, 205>>, <<404, 404, 1, 207>>,
      <<406, 406, 1, 211>>, <<407, 407, 1, 209>>, <<408, 408, 1, 1>>, <<412, 412, 1, 211>>,
      <<413, 413, 1, 213>>, <<415, 415, 1, 214>>, <<416, 420, 2, 1>>, <<422, 422, 1, 218>>,
      <<423, 423, 1, 1>>, <<425, 425, 1, 218>>, <<428, 428, 1, 1>>, <<430, 430, 1, 218>>,
      <<431, 431, 1, 1>>, <<433, 434, 1, 217>>, <<435, 437, 2, 1>>, <<439, 439, 1, 219>>,
      <<440, 440, 1, 1>>, <<444, 444, 1, 1>>, <<452, 452, 1, 2>>, <<453, 453, 1, 1>>,
      <<455, 455, 1, 2>>, <<456, 456, 1, 1>>, <<458, 458, 1, 2>>, <<459, 475, 2, 1>>,
      <<478, 494, 2, 1>>, <<497, 497, 1, 2>>, <<498, 500, 2, 1>>, <<502, 502, 1, -97>>,
      <<503, 503, 1, -56>>, <<504, 542, 2, 1>>, <<544, 544, 1, -130>>, <<546, 562, 2, 1>>,
      <<570, 570, 1, 10795>>, <<571, 571, 1, 1>>, <<573, 573, 1, -163>>, <<574, 574, 1, 10792>>,
      <<577, 577, 1, 1>>, <<579, 579, 1, -195>>, <<580, 580, 1, 69>>, <<581, 581, 1, 71>>,
      <<582, 590, 2, 1>>, <<880, 882, 2, 1>>, <<886, 886, 1, 1>>, <<895, 895, 1, 116>>,
      <<902, 902, 1, 38>>, <<904, 906, 1, 37>>, <<908, 908, 1, 64>>, <<910, 911, 1, 63>>,
      <<913, 929, 1, 32>>, <<931, 939, 1, 32>>, <<975, 975, 1, 8>>, <<984, 1006, 2, 1>>,
      <<1012, 1012, 1, -60>>, <<1015, 1015, 1, 1>>, <<1017, 1017, 1, -7>>, <<1018, 1018, 1, 1>>,
      <<1021, 1023, 1, -130>>, <<1024, 1039, 1, 80>>, <<1040, 1071, 1, 32>>, <<1120, 1152, 2, 1>>,
      <<1162, 1214, 2, 1>>, <<1216, 1216, 1, 15>>, <<1217, 1229, 2, 1>>, <<1232, 1326, 2, 1>>,
      <<1329, 1366, 1, 48>>, <<4256, 4293, 1, 7264>>, <<4295, 4295, 1, 7264>>, <<4301, 4301, 1, 7264>>,
      <<5024, 5103, 1, 38864>>, <<5104, 5109, 1, 8>>, <<7305, 7305, 1, 1>>, <<7312, 7354, 1, -3008>>,
      <<7357, 7359, 1, -3008>>, <<7680, 7828, 2, 1>>, <<7838, 7838, 1, -7615>>, <<7840, 7934, 2, 1>>,
      <<7944, 7951, 1, -8>>, <<7960, 7965, 1, -8>>, <<7976, 7983, 1, -8>>, <<7992, 7999, 1, -8>>,
      <<8008, 8013, 1, -8>>, <<8025, 8031, 2, -8>>, <<8040, 8047, 1, -8>>, <<8072, 8079, 1, -8>>,
      <<8088, 8095, 1, -8>>, <<8104, 8111, 1, -8>>, <<8120, 8121, 1, -8>>, <<8122, 8123, 1, -74>>,
      <<8124, 8124, 1, -9>>, <<8136, 8139, 1, -86>>, <<8140, 8140, 1, -9>>, <<8152, 8153, 1, -8>>,
      <<8154, 8155, 1, -100>>, <<8168, 8169, 1, -8>>, <<8170, 8171, 1, -112>>, <<8172, 8172, 1, -7>>,
      <<8184, 8185, 1, -128>>, <<8186, 8187, 1, -126>>, <<8188, 8188, 1, -9>>, <<8486, 8486, 1, -7517>>,
      <<8490, 8490, 1, -8383>>, <<8491, 8491, 1, -8262>>, <<8498, 8498, 1, 28>>, <<8544, 8559, 1, 16>>,
      <<8579, 8579, 1, 1>>, <<9398, 9423, 1, 26>>, <<11264, 11311, 1, 48>>, <<11360, 11360, 1, 1>>,
      <<11362, 11362, 1, -10743>>, <<11363, 11363, 1, -3814>>, <<11364, 11364, 1, -10727>>, <<11367, 11371, 2, 1>>,
      <<11373, 11373, 1, -10780>>, <<11374, 11374, 1, -10749>>, <<11375, 11375, 1, -10783>>, <<11376, 11376, 1, -10782>>,
      <<11378, 11378, 1, 1>>, <<11381, 11381, 1, 1>>, <<11390, 11391, 1, -10815>>, <<11392, 11490, 2, 1>>,
      <<11499, 11501, 2, 1>>, <<11506, 11506, 1, 1>>, <<42560, 42604, 2, 1>>, <<42624, 42650, 2, 1>>,
      <<42786, 42798, 2, 1>>, <<42802, 42862, 2, 1>>, <<42873, 42875, 2, 1>>, <<42877, 42877, 1, -35332>>,
      <<42878, 42886, 2, 1>>, <<42891, 42891, 1, 1>>, <<42893, 42893, 1, -42280>>, <<42896, 42898, 2, 1>>,
      <<42902, 42920, 2, 1>>, <<42922, 42922, 1, -42308>>, <<42923, 42923, 1, -42319>>, <<42924, 42924, 1, -42315>>,
      <<42925, 42925, 1, -42305>>, <<42926, 42926, 1, -42308>>, <<42928, 42928, 1, -42258>>, <<42929, 42929, 1, -42282>>,
      <<42930, 42930, 1, -42261>>, <<42931, 42931, 1, 928>>, <<42932, 42946, 2, 1>>, <<42948, 42948, 1, -48>>,
      <<42949, 42949, 1, -42307>>, <<42950, 42950, 1, -35384>>, <<42951, 42953, 2, 1>>, <<42955, 42955, 1, -42343>>,
      <<42956, 42970, 2, 1>>, <<42972, 42972, 1, -42561>>, <<42997, 42997, 1, 1>>, <<65313, 65338, 1, 32>>,
      <<66560, 66599, 1, 40>>, <<66736, 66771, 1, 40>>, <<66928, 66938, 1, 39>>, <<66940, 66954, 1, 39>>,
      <<66956, 66962, 1, 39>>, <<66964, 66965, 1, 39>>, <<68736, 68786, 1, 64>>, <<68944, 68965, 1, 32>>,
      <<71840, 71871, 1, 32>>, <<93760, 93791, 1, 32>>, <<93856, 93880, 1, 27>>, <<125184, 125217, 1, 34>> }

CasedRanges ==
    {
      <<65, 90>>, <<97, 122>>, <<170, 170>>, <<181, 181>>, <<186, 186>>, <<192, 214>>,
      <<216, 246>>, <<248, 442>>, <<444, 447>>, <<452, 659>>, <<662, 687>>, <<880, 883>>,
      <<886, 887>>, <<891, 893>>, <<895, 895>>, <<902, 902>>, <<904, 906>>, <<908, 908>>,
      <<910, 929>>, <<931, 1013>>, <<1015, 1153>>, <<1162, 1327>>, <<1329, 1366>>, <<1376, 1416>>,
      <<4256, 4293>>, <<4295, 4295>>, <<4301, 4301>>, <<4304, 4346>>, <<4349, 4351>>, <<5024, 5109>>,
      <<5112, 5117>>, <<7296, 7306>>, <<7312, 7354>>, <<7357, 7359>>, <<7424, 7467>>, <<7531, 7543>>,
      <<7545, 7578>>, <<7680, 7957>>, <<7960, 7965>>, <<7968, 8005>>, <<8008, 8013>>, <<8016, 8023>>,
      <<8025, 8025>>, <<8027, 8027>>, <<8029, 8029>>, <<8031, 8061>>, <<8064, 8116>>, <<8118, 8124>>,
      <<8126, 8126>>, <<8130, 8132>>, <<8134, 8140>>, <<8144, 8147>>, <<8150, 8155>>, <<8160, 8172>>,
      <<8178, 8180>>, <<8182, 8188>>, <<8450, 8450>>, <<8455, 8455>>, <<8458, 8467>>, <<8469, 8469>>,
      <<8473, 8477>>, <<8484, 8484>>, <<8486, 8486>>, <<8488, 8488>>, <<8490, 8493>>, <<8495, 8500>>,
      <<8505, 8505>>, <<8508, 8511>>, <<8517, 8521>>, <<8526, 8526>>, <<8544, 8575>>, <<8579, 8580>>,
      <<9398, 9449>>, <<11264, 11387>>, <<11390, 11492>>, <<11499, 11502>>, <<11506, 11507>>, <<11520, 11557>>,
      <<11559, 11559>>, <<11565, 11565>>, <<42560, 42605>>, <<42624, 42651>>, <<42786, 42863>>, <<42865, 42887>>,
      <<42891, 42894>>, <<42896, 42972>>, <<42997, 42998>>, <<43002, 43002>>, <<43824, 43866>>, <<43872, 43880>>,
      <<43888, 43967>>, <<64256, 64262>>, <<64275, 64279>>, <<65313, 65338>>, <<65345, 65370>>, <<66560, 66639>>,
      <<66736, 66771>>, <<66776, 66811>>, <<66928, 66938>>, <<66940, 66954>>, <<66956, 66962>>, <<66964, 66965>>,
      <<66967, 66977>>, <<66979, 66993>>, <<66995, 67001>>, <<67003, 67004>>, <<68736, 68786>>, <<68800, 68850>>,
      <<68944, 68965>>, <<68976, 68997>>, <<71840, 71903>>, <<93760, 93823>>, <<93856, 93880>>, <<93883, 93907>>,
      <<119808, 119892>>, <<119894, 119964>>, <<119966, 119967>>, <<119970, 119970>>, <<119973, 119974>>, <<119977, 119980>>,
      <<119982, 119993>>, <<119995, 119995>>, <<119997, 120003>>, <<120005, 120069>>, <<120071, 120074>>, <<120077, 120084>>,
      <<120086, 120092>>, <<120094, 120121>>, <<120123, 120126>>, <<120128, 120132>>, <<120134, 120134>>, <<120138, 120144>>,
      <<120146, 120485>>, <<120488, 120512>>, <<120514, 120538>>, <<120540, 120570>>, <<120572, 120596>>, <<120598, 120628>>,
      <<120630, 120654>>, <<120656, 120686>>, <<120688, 120712>>, <<120714, 120744>>, <<120746, 120770>>, <<120772, 120779>>,
      <<122624, 122633>>, <<122635, 122654>>, <<122661, 122666>>, <<125184, 125251>>, <<127280, 127305>>, <<127312, 127337>>,
      <<127344, 127369>> }

CaseIgnorableRanges ==
    {
      <<39, 39>>, <<46, 46>>, <<58, 58>>, <<94, 94>>, <<96, 96>>, <<168, 168>>,
      <<173, 173>>, <<175, 175>>, <<180, 180>>, <<183, 184>>, <<688, 879>>, <<884, 885>>,
      <<890, 890>>, <<900, 901>>, <<903, 903>>, <<1155, 1161>>, <<1369, 1369>>, <<1375, 1375>>,
      <<1425, 1469>>, <<1471, 1471>>, <<1473, 1474>>, <<1476, 1477>>, <<1479, 1479>>, <<1524, 1524>>,
      <<1536, 1541>>, <<1552, 1562>>, <<1564, 1564>>, <<1600, 1600>>, <<1611, 1631>>, <<1648, 1648>>,
      <<1750, 1757>>, <<1759, 1768>>, <<1770, 1773>>, <<1807, 1807>>, <<1809, 1809>>, <<1840, 1866>>,
      <<1958, 1968>>, <<2027, 2037>>, <<2042, 2042>>, <<2045, 2045>>, <<2070, 2093>>, <<2137, 2139>>,
      <<2184, 2184>>, <<2192, 2193>>, <<2199, 2207>>, <<2249, 2306>>, <<2362, 2362>>, <<2364, 2364>>,
      <<2369, 2376>>, <<2381, 2381>>, <<2385, 2391>>, <<2402, 2403>>, <<2417, 2417>>, <<2433, 2433>>,
      <<2492, 2492>>, <<2497, 2500>>, <<2509, 2509>>, <<2530, 2531>>, <<2558, 2558>>, <<2561, 2562>>,
      <<2620, 2620>>, <<2625, 2626>>, <<2631, 2632>>, <<2635, 2637>>, <<2641, 2641>>, <<2672, 2673>>,
      <<2677, 2677>>, <<2689, 2690>>, <<2748, 2748>>, <<2753, 2757>>, <<2759, 2760>>, <<2765, 2765>>,
      <<2786, 2787>>, <<2810, 2815>>, <<2817, 2817>>, <<2876, 2876>>, <<2879, 2879>>, <<2881, 2884>>,
      <<2893, 2893>>, <<2901, 2902>>, <<2914, 2915>>, <<2946, 2946>>, <<3008, 3008>>, <<3021, 3021>>,
      <<3072, 3072>>, <<3076, 3076>>, <<3132, 3132>>, <<3134, 3136>>, <<3142, 3144>>, <<3146, 3149>>,
      <<3157, 3158>>, <<3170, 3171>>, <<3201, 3201>>, <<3260, 3260>>, <<3263, 3263>>, <<3270, 3270>>,
      <<3276, 3277>>, <<3298, 3299>>, <<3328, 3329>>, <<3387, 3388>>, <<3393, 3396>>, <<3405, 3405>>,
      <<3426, 3427>>, <<3457, 3457>>, <<3530, 3530>>, <<3538, 3540>>, <<3542, 3542>>, <<3633, 3633>>,
      <<3636, 3642>>, <<3654, 3662>>, <<3761, 3761>>, <<3764, 3772>>, <<3782, 3782>>, <<3784, 3790>>,
      <<3864, 3865>>, <<3893, 3893>>, <<3895, 3895>>, <<3897, 3897>>, <<3953, 3966>>, <<3968, 3972>>,
      <<3974, 3975>>, <<3981, 3991>>, <<3993, 4028>>, <<4038, 4038>>, <<4141, 4144>>, <<4146, 4151>>,
      <<4153, 4154>>, <<4157, 4158>>, <<4184, 4185>>, <<4190, 4192>>, <<4209, 4212>>, <<4226, 4226>>,
      <<4229, 4230>>, <<4237, 4237>>, <<4253, 4253>>, <<4348, 4348>>, <<4957, 4959>>, <<5906, 5908>>,
      <<5938, 5939>>, <<5970, 5971>>, <<6002, 6003>>, <<6068, 6069>>, <<6071, 6077>>, <<6086, 6086>>,
      <<6089, 6099>>, <<6103, 6103>>, <<6109, 6109>>, <<6155, 6159>>, <<6211, 6211>>, <<6277, 6278>>,
      <<6313, 6313>>, <<6432, 6434>>, <<6439, 6440>>, <<6450, 6450>>, <<6457, 6459>>, <<6679, 6680>>,
      <<6683, 6683>>, <<6742, 6742>>, <<6744, 6750>>, <<6752, 6752>>, <<6754, 6754>>, <<6757, 6764>>,
      <<6771, 6780>>, <<6783, 6783>>, <<6823, 6823>>, <<6832, 6877>>, <<6880, 6891>>, <<6912, 6915>>,
      <<6964, 6964>>, <<6966, 6970>>, <<6972, 6972>>, <<6978, 6978>>, <<7019, 7027>>, <<7040, 7041>>,
      <<7074, 7077>>, <<7080, 7081>>, <<7083, 7085>>, <<7142, 7142>>, <<7144, 7145>>, <<7149, 7149>>,
      <<7151, 7153>>, <<7212, 7219>>, <<7222, 7223>>, <<7288, 7293>>, <<7376, 7378>>, <<7380, 7392>>,
      <<7394, 7400>>, <<7405, 7405>>, <<7412, 7412>>, <<7416, 7417>>, <<7468, 7530>>, <<7544, 7544>>,
      <<7579, 7679>>, <<8125, 8125>>, <<8127, 8129>>, <<8141, 8143>>, <<8157, 8159>>, <<8173, 8175>>,
      <<8189, 8190>>, <<8203, 8207>>, <<8216, 8217>>, <<8228, 8228>>, <<8231, 8231>>, <<8234, 8238>>,
      <<8288, 8292>>, <<8294, 8303>>, <<8305, 8305>>, <<8319, 8319>>, <<8336, 8348>>, <<8400, 8432>>,
      <<11388, 11389>>, <<11503, 11505>>, <<11631, 11631>>, <<11647, 11647>>, <<11744, 11775>>, <<11823, 11823>>,
      <<12293, 12293>>, <<12330, 12333>>, <<12337, 12341>>, <<12347, 12347>>, <<12441, 12446>>, <<12540, 12542>>,
      <<40981, 40981>>, <<42232, 42237>>, <<42508, 42508>>, <<42607, 42610>>, <<42612, 42621>>, <<42623, 42623>>,
      <<42652, 42655>>, <<42736, 42737>>, <<42752, 42785>>, <<42864, 42864>>, <<42888, 42890>>, <<42993, 42996>>,
      <<43000, 43001>>, <<43010, 43010>>, <<43014, 43014>>, <<43019, 43019>>, <<43045, 43046>>, <<43052, 43052>>,
      <<43204, 43205>>, <<43232, 43249>>, <<43263, 43263>>, <<43302, 43309>>, <<43335, 43345>>, <<43392, 43394>>,
      <<43443, 43443>>, <<43446, 43449>>, <<43452, 43453>>, <<43471, 43471>>, <<43493, 43494>>, <<43561, 43566>>,
      <<43569, 43570>>, <<43573, 43574>>, <<43587, 43587>>, <<43596, 43596>>, <<43632, 43632>>, <<43644, 43644>>,
      <<43696, 43696>>, <<43698, 43700>>, <<43703, 43704>>, <<43710, 43711>>, <<43713, 43713>>, <<43741, 43741>>,
      <<43756, 43757>>, <<43763, 43764>>, <<43766, 43766>>, <<43867, 43871>>, <<43881, 43883>>, <<44005, 44005>>,
      <<44008, 44008>>, <<44013, 44013>>, <<64286, 64286>>, <<64434, 64450>>, <<65024, 65039>>, <<65043, 65043>>,
      <<65056, 65071>>, <<65106, 65106>>, <<65109, 65109>>, <<65279, 65279>>, <<65287, 65287>>, <<65294, 65294>>,
      <<65306, 65306>>, <<65342, 65342>>, <<65344, 65344>>, <<65392, 65392>>, <<65438, 65439>>, <<65507, 65507>>,
      <<65529, 65531>>, <<66045, 66045>>, <<66272, 66272>>, <<66422, 66426>>, <<67456, 67461>>, <<67463, 67504>>,
      <<67506, 67514>>, <<68097, 68099>>, <<68101, 68102>>, <<68108, 68111>>, <<68152, 68154>>, <<68159, 68159>>,
      <<68325, 68326>>, <<68900, 68903>>, <<68942, 68942>>, <<68969, 68973>>, <<68975, 68975>>, <<69291, 69292>>,
      <<69317, 69317>>, <<69370, 69375>>, <<69446, 69456>>, <<69506, 69509>>, <<69633, 69633>>, <<69688, 69702>>,
      <<69744, 69744>>, <<69747, 69748>>, <<69759, 69761>>, <<69811, 69814>>, <<69817, 69818>>, <<69821, 69821>>,
      <<69826, 69826>>, <<69837, 69837>>, <<69888, 69890>>, <<69927, 69931>>, <<69933, 69940>>, <<70003, 70003>>,
      <<70016, 70017>>, <<70070, 70078>>, <<70089, 70092>>, <<70095, 70095>>, <<70191, 70193>>, <<70196, 70196>>,
      <<70198, 70199>>, <<70206, 70206>>, <<70209, 70209>>, <<70367, 70367>>, <<70371, 70378>>, <<70400, 70401>>,
      <<70459, 70460>>, <<70464, 70464>>, <<70502, 70508>>, <<70512, 70516>>, <<70587, 70592>>, <<70606, 70606>>,
      <<70608, 70608>>, <<70610, 70610>>, <<70625, 70626>>, <<70712, 70719>>, <<70722, 70724>>, <<70726, 70726>>,
      <<70750, 70750>>, <<70835, 70840>>, <<70842, 70842>>, <<70847, 70848>>, <<70850, 70851>>, <<71090, 71093>>,
      <<71100, 71101>>, <<71103, 71104>>, <<71132, 71133>>, <<71219, 71226>>, <<71229, 71229>>, <<71231, 71232>>,
      <<71339, 71339>>, <<71341, 71341>>, <<71344, 71349>>, <<71351, 71351>>, <<71453, 71453>>, <<71455, 71455>>,
      <<71458, 71461>>, <<71463, 71467>>, <<71727, 71735>>, <<71737, 71738>>, <<71995, 71996>>, <<71998, 71998>>,
      <<72003, 72003>>, <<72148, 72151>>, <<72154, 72155>>, <<72160, 72160>>, <<72193, 72202>>, <<72243, 72248>>,
      <<72251, 72254>>, <<72263, 72263>>, <<72273, 72278>>, <<72281, 72283>>, <<72330, 72342>>, <<72344, 72345>>,
      <<72544, 72544>>, <<72546, 72548>>, <<72550, 72550>>, <<72752, 72758>>, <<72760, 72765>>, <<72767, 72767>>,
      <<72850, 72871>>, <<72874, 72880>>, <<72882, 72883>>, <<72885, 72886>>, <<73009, 73014>>, <<73018, 73018>>,
      <<73020, 73021>>, <<73023, 73029>>, <<73031, 73031>>, <<73104, 73105>>, <<73109, 73109>>, <<73111, 73111>>,
      <<73177, 73177>>, <<73459, 73460>>, <<73472, 73473>>, <<73526, 73530>>, <<73536, 73536>>, <<73538, 73538>>,
      <<73562, 73562>>, <<78896, 78912>>, <<78919, 78933>>, <<90398, 90409>>, <<90413, 90415>>, <<92912, 92916>>,
      <<92976, 92982>>, <<92992, 92995>>, <<93504, 93506>>, <<93547, 93548>>, <<94031, 94031>>, <<94095, 94111>>,
      <<94176, 94177>>, <<94179, 94180>>, <<94194, 94195>>, <<110576, 110579>>, <<110581, 110587>>, <<110589, 110590>>,
      <<113821, 113822>>, <<113824, 113827>>, <<118528, 118573>>, <<118576, 118598>>, <<119143, 119145>>, <<119155, 119170>>,
      <<119173, 119179>>, <<119210, 119213>>, <<119362, 119364>>, <<121344, 121398>>, <<121403, 121452>>, <<121461, 121461>>,
      <<121476, 121476>>, <<121499, 121503>>, <<121505, 121519>>, <<122880, 122886>>, <<122888, 122904>>, <<122907, 122913>>,
      <<122915, 122916>>, <<122918, 122922>>, <<122928, 122989>>, <<123023, 123023>>, <<123184, 123197>>, <<123566, 123566>>,
      <<123628, 123631>>, <<124139, 124143>>, <<124398, 124399>>, <<124643, 124643>>, <<124646, 124646>>, <<124654, 124655>>,
      <<124661, 124661>>, <<124671, 124671>>, <<125136, 125142>>, <<125252, 125259>>, <<127995, 127999>>, <<917505, 917505>>,
      <<917536, 917631>>, <<917760, 917999>> }

InRanges(cp, R) == \E r \in R : r[1] <= cp /\ cp <= r[2]

\* Cased and not Case_Ignorable / Case_Ignorable, the two properties the
\* Final_Sigma condition reads
IsCased(cp) == InRanges(cp, CasedRanges)
IsCaseIgnorable(cp) == InRanges(cp, CaseIgnorableRanges)

\* lower-case mapping of one code point that maps to one code point
simpleLower(cp) ==
    IF cp < 128 THEN (IF 65 <= cp /\ cp <= 90 THEN cp + 32 ELSE cp)
    ELSE IF \E r \in LowerRanges : r[1] <= cp /\ cp <= r[2] /\ (cp - r[1]) % r[3] = 0
    THEN cp + (CHOOSE r \in LowerRanges :
                   r[1] <= cp /\ cp <= r[2] /\ (cp - r[1]) % r[3] = 0)[4]
    ELSE cp

CapitalSigma == 931
SmallSigma == 963
FinalSigma == 962
CapitalIWithDot == 304

\* Final_Sigma: a cased letter before position i and none after it, case-
\* ignorable code points skipped on both sides
precededByCased(cps, i) ==
    \E j \in 1..(i - 1) :
        /\ ~IsCaseIgnorable(cps[j]) /\ IsCased(cps[j])
        /\ \A k \in (j + 1)..(i - 1) : IsCaseIgnorable(cps[k])

followedByCased(cps, i) ==
    \E j \in (i + 1)..Len(cps) :
        /\ ~IsCaseIgnorable(cps[j]) /\ IsCased(cps[j])
        /\ \A k \in (i + 1)..(j - 1) : IsCaseIgnorable(cps[k])

\* the lower-case form of the code point at position i
lowerAt(cps, i) ==
    IF cps[i] = CapitalSigma
    THEN (IF precededByCased(cps, i) /\ ~followedByCased(cps, i)
          THEN <<FinalSigma>> ELSE <<SmallSigma>>)
    ELSE IF cps[i] = CapitalIWithDot THEN <<105, 775>>
    ELSE codeUnitsOf(simpleLower(cps[i]))

RECURSIVE lowerFrom(_, _)
lowerFrom(cps, i) ==
    IF i > Len(cps) THEN <<>> ELSE lowerAt(cps, i) \o lowerFrom(cps, i + 1)

\* String.prototype.toLowerCase (an all-ASCII string needs neither the
\* pairing of surrogates nor the context rule)
toLowerCase(s) ==
    IF \A i \in 1..Len(s) : s[i] < 128
    THEN [i \in 1..Len(s) |-> simpleLower(s[i])]
    ELSE lowerFrom(codePoints(s), 1)

\* String.prototype.startsWith (case-sensitive)
startsWith(s, p) == Len(s) >= Len(p) /\ SubSeq(s, 1, Len(p)) = p

\* String.prototype.substring(0, n)
substring0(s, n) == SubSeq(s, 1, IF Len(s) < n THEN Len(s) ELSE n)

\* String.prototype.trim
RECURSIVE trimStart(_)
trimStart(s) ==
    IF s # <<>> /\ Head(s) \in WhiteSpace THEN trimStart(Tail(s)) ELSE s

RECURSIVE trimEnd(_)
trimEnd(s) ==
    IF s # <<>> /\ s[Len(s)] \in WhiteSpace
    THEN trimEnd(SubSeq(s, 1, Len(s) - 1)) ELSE s

trim(s) == trimEnd(trimStart(s))

\* index of the first occurrence of code unit c in s, 0 when there is none
firstIndexOf(s, c) ==
    IF \E i \in 1..Len(s) : s[i] = c
    THEN CHOOSE i \in 1..Len(s) : s[i] = c /\ \A j \in 1..(i - 1) : s[j] # c
    ELSE 0

\* String.prototype.split(sep) for a one-character separator: always at
\* least one segment
RECURSIVE split(_, _)
split(s, sep) ==
    LET k == firstIndexOf(s, sep) IN
    IF k = 0 THEN <<s>>
    ELSE <<SubSeq(s, 1, k - 1)>> \o split(SubSeq(s, k + 1, Len(s)), sep)

Semicolon == 59
EqualsSign == 61

(* JavaScript numbers. Every number these functions compute is a           *)
(* non-negative integer that an IEEE 754 double holds exactly, or          *)
(* Infinity. An integer is written as its decimal digits, most             *)
(* significant first, with no leading zero (zero is <<0>>), so that its    *)
(* size is not limited to 32 bits.                                         *)

\* the digits of a non-negative integer n
RECURSIVE digitsOf(_)
digitsOf(n) ==
    IF n < 10 THEN <<n>> ELSE Append(digitsOf(n \div 10), n % 10)

\* a finite number, Infinity, and the number of an integer n
Number(ds) == [type |-> "number", finite |-> TRUE, digits |-> ds]
Infinity == [type |-> "number", finite |-> FALSE, digits |-> <<>>]
Num(n) == Number(digitsOf(n))

\* leading zeros dropped
stripZeros(ds) ==
    IF \A i \in 1..Len(ds) : ds[i] = 0 THEN <<0>>
    ELSE LET k == CHOOSE k \in 1..Len(ds) :
                      ds[k] # 0 /\ \A j \in 1..(k - 1) : ds[j] = 0
         IN  SubSeq(ds, k, Len(ds))

\* a < b, on digits
natLess(a, b) ==
    \/ Len(a) < Len(b)
    \/ /\ Len(a) = Len(b)
       /\ \E i \in 1..Len(a) : a[i] < b[i] /\ \A j \in 1..(i - 1) : a[j] = b[j]

isOdd(a) == a[Len(a)] % 2 = 1

Zeros(n) == [i \in 1..n |-> 0]

\* a + 1, on digits
increment(a) ==
    IF \A i \in 1..Len(a) : a[i] = 9
    THEN <<1>> \o Zeros(Len(a))
    ELSE LET k == CHOOSE k \in 1..Len(a) :
                      a[k] # 9 /\ \A j \in (k + 1)..Len(a) : a[j] = 9
         IN  SubSeq(a, 1, k - 1) \o <<a[k] + 1>> \o Zeros(Len(a) - k)

\* long division of the digits lo..hi of a by a small integer k, r being the
\* remainder carried in from the digits before
RECURSIVE longDivision(_, _, _, _, _)
longDivision(a, k, lo, hi, r) ==
    IF lo > hi THEN [q |-> <<>>, r |-> r]
    ELSE IF lo = hi
    THEN LET x == 10 * r + a[lo] IN [q |-> <<x \div k>>, r |-> x % k]
    ELSE LET mid == (lo + hi) \div 2
             upper == longDivision(a, k, lo, mid, r)
             lower == longDivision(a, k, mid + 1, hi, upper.r)
         IN  [q |-> upper.q \o lower.q, r |-> lower.r]

quotient(a, k) == stripZeros(longDivision(a, k, 1, Len(a), 0).q)
remainder(a, k) == longDivision(a, k, 1, Len(a), 0).r

Reverse(s) == [i \in 1..Len(s) |-> s[Len(s) + 1 - i]]

\* the digits lo..hi of a times a small integer k, c being the carry coming
\* in from the digits after; low is the product's digits, least significant
\* first, and over the carry going out
RECURSIVE longProduct(_, _, _, _, _)
longProduct(a, k, lo, hi, c) ==
    IF lo > hi THEN [low |-> <<>>, over |-> c]
    ELSE IF lo = hi
    THEN LET x == a[lo] * k + c IN [low |-> <<x % 10>>, over |-> x \div 10]
    ELSE LET mid == (lo + hi) \div 2
             lower == longProduct(a, k, mid + 1, hi, c)
             upper == longProduct(a, k, lo, mid, lower.over)
         IN  [low |-> lower.low \o upper.low, over |-> upper.over]

product(a, k) ==
    LET m == longProduct(a, k, 1, Len(a), 0)
    IN  stripZeros(Reverse(m.low \o Reverse(digitsOf(m.over))))

\* the largest power of two the long operations take in one step
ChunkBits == 26

\* a * 2^n and floor(a / 2^n), on digits
RECURSIVE timesPowerOfTwo(_, _)
timesPowerOfTwo(a, n) ==
    IF n <= ChunkBits THEN product(a, 2^n)
    ELSE timesPowerOfTwo(product(a, 2^ChunkBits), n - ChunkBits)

RECURSIVE overPowerOfTwo(_, _)
overPowerOfTwo(a, n) ==
    IF n <= ChunkBits THEN quotient(a, 2^n)
    ELSE overPowerOfTwo(quotient(a, 2^ChunkBits), n - ChunkBits)

\* a double has a 53-bit significand: 2^52 and 2^53
TwoTo52 == <<4, 5, 0, 3, 5, 9, 9, 6, 2, 7, 3, 7, 0, 4, 9, 6>>
TwoTo53 == <<9, 0, 0, 7, 1, 9, 9, 2, 5, 4, 7, 4, 0, 9, 9, 2>>
\* the largest finite doubles are 53-bit significands times 2^971
MaxBinaryShift == 971

\* q shifted right by whole chunks while more than a chunk is left to shift;
\* sticky tells whether a non-zero bit was shifted out
RECURSIVE coarseShift(_, _, _)
coarseShift(q, chunks, sticky) ==
    IF natLess(quotient(q, 2^ChunkBits), TwoTo53)
    THEN [q |-> q, chunks |-> chunks, sticky |-> sticky]
    ELSE coarseShift(quotient(q, 2^ChunkBits), chunks + 1,
                     sticky \/ remainder(q, 2^ChunkBits) # 0)

\* the bits still to shift out of q for a 53-bit significand
fineShift(q) ==
    CHOOSE j \in 0..ChunkBits :
        /\ natLess(quotient(q, 2^j), TwoTo53)
        /\ j > 0 => ~natLess(quotient(q, 2^(j - 1)), TwoTo53)

\* q / 2^j rounded to an integer, ties to even; sticky tells whether q
\* stands for a value slightly above q
roundedShift(q, j, sticky) ==
    IF /\ j > 0
       /\ remainder(q, 2^j) >= 2^(j - 1)
       /\ \/ sticky
          \/ remainder(q, 2^j) % (2^(j - 1)) # 0
          \/ isOdd(quotient(q, 2^j))
    THEN increment(quotient(q, 2^j))
    ELSE quotient(q, 2^j)

\* the double with significand m and binary exponent shift
scaled(m, shift) ==
    IF shift > MaxBinaryShift \/ (shift = MaxBinaryShift /\ m = TwoTo53)
    THEN Infinity
    ELSE Number(timesPowerOfTwo(m, shift))

roundedAt(c, j) == scaled(roundedShift(c.q, j, c.sticky), ChunkBits * c.chunks + j)

rounded(c) == roundedAt(c, fineShift(c.q))

\* the double nearest to the real number n + f, ties to even, where n is an
\* integer of at least 2^53 or f = 0, and inexact says that 0 < f < 1
toDouble(n, inexact) == rounded(coarseShift(n, 0, inexact))

\* a < b on numbers
numberLess(a, b) == a.finite /\ (~b.finite \/ natLess(a.digits, b.digits))

\* the power of two that scales a / k to a full significand
scaleOf(a, k) ==
    CHOOSE t \in 0..52 :
        /\ ~natLess(quotient(timesPowerOfTwo(a, t), k), TwoTo52)
        /\ natLess(quotient(timesPowerOfTwo(a, t), k), TwoTo53)

\* a / k rounded to an integer, ties to even
roundedQuotient(a, k) ==
    IF \/ 2 * remainder(a, k) > k
       \/ 2 * remainder(a, k) = k /\ isOdd(quotient(a, k))
    THEN increment(quotient(a, k))
    ELSE quotient(a, k)

\* floor of the double nearest to a / k, for a / k below 2^53
floorAtScale(a, k, t) == overPowerOfTwo(roundedQuotient(timesPowerOfTwo(a, t), k), t)

\* Math.floor(x / k) for a small positive integer k: the quotient is rounded
\* to a double (ties to even) before the floor is taken
floorOfQuotient(x, k) ==
    IF ~x.finite THEN Infinity
    ELSE IF ~natLess(quotient(x.digits, k), TwoTo53)
    THEN toDouble(quotient(x.digits, k), remainder(x.digits, k) # 0)
    ELSE IF quotient(x.digits, k) = <<0>> THEN Number(<<0>>)
    ELSE Number(floorAtScale(x.digits, k, scaleOf(x.digits, k)))

\* Number::toString: the shortest significand that reads back as the same
\* double; below 10^21 it is followed by zeros up to the units, from 10^21 on
\* it is put in exponent form
PlainDigits == 21
MaxSignificantDigits == 17

\* the first k digits of ds, or one more, followed by zeros
roundedTo(ds, k, up) ==
    (IF up THEN increment(SubSeq(ds, 1, k)) ELSE SubSeq(ds, 1, k)) \o Zeros(Len(ds) - k)

\* the digits ds as far as the k-th, rounded down or up, read as a number
readsBack(ds, k, up) == toDouble(roundedTo(ds, k, up), FALSE) = Number(ds)

fits(ds, k) ==
    \/ k >= MaxSignificantDigits
    \/ k >= Len(ds)
    \/ \E up \in BOOLEAN : readsBack(ds, k, up)

shortestLength(ds) ==
    CHOOSE k \in 1..MaxSignificantDigits : \A j \in 1..k : fits(ds, j) <=> j = k

\* whether ds is nearer to its first k digits rounded down than rounded up,
\* or as near and the k-th digit is even
nearerDown(ds, k) ==
    \/ k >= Len(ds)
    \/ ds[k + 1] < 5
    \/ /\ ds[k + 1] = 5
       /\ \A i \in (k + 2)..Len(ds) : ds[i] = 0
       /\ ds[k] % 2 = 0

\* of the two candidates with k digits, the one that reads back; the nearer
\* to ds when both do
roundsUp(ds, k) ==
    ~readsBack(ds, k, FALSE) \/ (readsBack(ds, k, TRUE) /\ ~nearerDown(ds, k))

shortestAt(ds, k) == roundedTo(ds, k, roundsUp(ds, k))

shortest(ds) == shortestAt(ds, shortestLength(ds))

dropTrailingZeros(ds) ==
    SubSeq(ds, 1, CHOOSE k \in 1..Len(ds) :
                      ds[k] # 0 /\ \A j \in (k + 1)..Len(ds) : ds[j] = 0)

digitChars(ds) == [i \in 1..Len(ds) |-> 48 + ds[i]]

\* d.ddd for the significant digits sig
significandChars(sig) ==
    <<48 + sig[1]>> \o (IF Len(sig) > 1 THEN <<46>> \o digitChars(Tail(sig)) ELSE <<>>)   \* '.'

\* d.ddde+n for the digits c, whose trailing zeros make the exponent
exponentForm(c) ==
    significandChars(dropTrailingZeros(c)) \o <<101, 43>> \o digitChars(digitsOf(Len(c) - 1))   \* 'e+'

\* the text of a number as code units, as a template literal renders it
numberChars(x) ==
    IF ~x.finite THEN <<73, 110, 102, 105, 110, 105, 116, 121>>   \* 'Infinity'
    ELSE IF Len(x.digits) <= PlainDigits THEN digitChars(shortest(x.digits))
    ELSE exponentForm(shortest(x.digits))

\* the characters a number's text is made of, as text
CharTexts ==
    [u \in 48..57 |-> <<"0", "1", "2", "3", "4", "5", "6", "7", "8", "9">>[u - 47]]
        @@ (43 :> "+") @@ (46 :> ".") @@ (73 :> "I") @@ (101 :> "e") @@ (102 :> "f")
        @@ (105 :> "i") @@ (110 :> "n") @@ (116 :> "t") @@ (121 :> "y")

RECURSIVE textBetween(_, _, _)
textBetween(s, lo, hi) ==
    IF lo > hi THEN ""
    ELSE IF lo = hi THEN CharTexts[s[lo]]
    ELSE LET mid == (lo + hi) \div 2
         IN  textBetween(s, lo, mid) \o textBetween(s, mid + 1, hi)

textOf(s) == textBetween(s, 1, Len(s))

\* the same text, for the messages
numberText(x) == textOf(numberChars(x))

\* parseInt on a non-empty run of decimal digits: the double nearest to the
\* integer the digits spell
digitValue(u) == u - 48

parseInt(ds) ==
    toDouble(stripZeros([i \in 1..Len(ds) |-> digitValue(ds[i])]), FALSE)

\* a JavaScript value that is a string, and the value undefined
Str(s) == [type |-> "string", chars |-> s]
Undefined == [type |-> "undefined", chars |-> <<>>]
\* the value null
Null == [type |-> "null"]

----------------------------------------------------------------------------
(* URL normalisation, shared by both analyzers (lines 11-14 of each).      *)

HttpPrefix == <<104, 116, 116, 112, 58, 47, 47>>   \* 'http://'
HttpsPrefix == <<104, 116, 116, 112, 115, 58, 47, 47>>   \* 'https://'

\* faulty variant of normalizeUrl: || for &&, so the scheme is always prepended
normalizeUrlAlways(d) ==
    IF ~startsWith(d, HttpPrefix) \/ ~startsWith(d, HttpsPrefix)
    THEN HttpsPrefix \o d
    ELSE d

\* let url = domain; if (!url.startsWith('http://') && !url.startsWith('https://'))
\*     url = 'https://' + url;
normalizeUrl(d) ==
    IF ~startsWith(d, HttpPrefix) /\ ~startsWith(d, HttpsPrefix)
    THEN HttpsPrefix \o d
    ELSE d

\* error.message of the TypeError `url.startsWith(...)` raises when domain
\* is not a string: undefined and null have no properties, any other value
\* has no startsWith method
startsWithTypeError(d) ==
    IF d.type \in {"undefined", "null"}
    THEN "Cannot read properties of " \o d.type \o " (reading 'startsWith')"
    ELSE "url.startsWith is not a function"

----------------------------------------------------------------------------
(* checkHSTS: header parsing and classification (part_000, lines 25-90).   *)

OneYear == 31536000
SecondsPerDay == 86400

MaxAgeKey == <<109, 97, 120, 45, 97, 103, 101, 61>>   \* 'max-age='
IncludeSubDomainsKey == <<105, 110, 99, 108, 117, 100, 101, 83, 117, 98, 68, 111, 109, 97, 105, 110, 115>>   \* 'includeSubDomains'
PreloadKey == <<112, 114, 101, 108, 111, 97, 100>>   \* 'preload'

\* one pattern character of an /i regular expression without the u flag
\* against one code unit, for an ASCII pattern character p: both are
\* canonicalized by upper-casing, and a code unit above ASCII never
\* canonicalizes to an ASCII one
asciiUpper(u) == IF 97 <= u /\ u <= 122 THEN u - 32 ELSE u
matchesIgnoreCase(u, p) == u < 128 /\ asciiUpper(u) = asciiUpper(p)

\* the literal key, matched with the i flag, at position i of h
keyAt(h, key, i) ==
    /\ i + Len(key) - 1 <= Len(h)
    /\ \A k \in 1..Len(key) : matchesIgnoreCase(h[i + k - 1], key[k])

\* RegExp.prototype.test for a literal pattern with the i flag
testIgnoreCase(h, key) == \E i \in 1..Len(h) : keyAt(h, key, i)

\* positions where /max-age=(\d+)/i matches: the key, then at least one digit
maxAgeMatchAt(h, i) ==
    /\ i + Len(MaxAgeKey) <= Len(h)
    /\ keyAt(h, MaxAgeKey, i)
    /\ IsDigit(h[i + Len(MaxAgeKey)])

\* the greedy digit run (\d+) starting at position k
RECURSIVE digitRun(_, _)
digitRun(h, k) ==
    IF k <= Len(h) /\ IsDigit(h[k]) THEN <<h[k]>> \o digitRun(h, k + 1) ELSE <<>>

\* hstsHeader.match(/max-age=(\d+)/i): the capture of the leftmost match,
\* or no match
maxAgeMatch(h) ==
    IF \E i \in 1..Len(h) : maxAgeMatchAt(h, i)
    THEN LET i == CHOOSE i \in 1..Len(h) :
                      maxAgeMatchAt(h, i) /\ \A j \in 1..(i - 1) : ~maxAgeMatchAt(h, j)
         IN  [matched |-> TRUE, digits |-> digitRun(h, i + Len(MaxAgeKey))]
    ELSE [matched |-> FALSE, digits |-> <<>>]

\* const maxAge = maxAgeMatch ? parseInt(maxAgeMatch[1]) : 0;
maxAgeOf(h) ==
    LET m == maxAgeMatch(h) IN IF m.matched THEN parseInt(m.digits) ELSE Num(0)

\* Math.floor(maxAge / 86400)
maxAgeDaysOf(maxAge) == floorOfQuotient(maxAge, SecondsPerDay)

\* faulty variant of maxAgeRule: the weak max-age branch pushes no issue
maxAgeRuleSilent(maxAge) ==
    IF maxAge = Num(0)
    THEN [severity |-> "critical", status |-> "HSTS Misconfigured",
          issues |-> <<"max-age is 0 (effectively disabled)">>]
    ELSE IF numberLess(maxAge, Num(OneYear))
    THEN [severity |-> "warning", status |-> "HSTS Weak Configuration",
          issues |-> <<>>]
    ELSE [severity |-> "ok", status |-> "HSTS Enabled", issues |-> <<>>]

\* lines 54-66: the max-age rule
maxAgeRule(maxAge) ==
    IF maxAge = Num(0)
    THEN [severity |-> "critical", status |-> "HSTS Misconfigured",
          issues |-> <<"max-age is 0 (effectively disabled)">>]
    ELSE IF numberLess(maxAge, Num(OneYear))
    THEN [severity |-> "warning", status |-> "HSTS Weak Configuration",
          issues |-> <<"max-age is " \o numberText(maxAgeDaysOf(maxAge))
                         \o " days (recommended: at least 365 days)">>]
    ELSE [severity |-> "ok", status |-> "HSTS Enabled", issues |-> <<>>]

\* faulty variant of subDomainsRule: the `severity === 'ok'` guard is dropped
subDomainsRuleUnguarded(c, includeSubDomains) ==
    IF ~includeSubDomains
    THEN [severity |-> "warning",
          status |-> c.status,
          issues |-> Append(c.issues, "includeSubDomains directive not set")]
    ELSE c

\* lines 68-71: the includeSubDomains rule, applied to the max-age rule's result
subDomainsRule(c, includeSubDomains) ==
    IF ~includeSubDomains
    THEN [severity |-> IF c.severity = "ok" THEN "warning" ELSE c.severity,
          status |-> c.status,
          issues |-> Append(c.issues, "includeSubDomains directive not set")]
    ELSE c

\* lines 28-41: the Finding when the header is falsy
hstsNotEnabled(d) ==
    [success |-> TRUE, domain |-> d, enabled |-> FALSE,
     severity |-> "critical", status |-> "HSTS Not Enabled",
     message |-> "HTTP Strict Transport Security policy is not enabled. This allows potential man-in-the-middle attacks.",
     details |-> [header |-> Null, maxAge |-> Null,
                  includeSubDomains |-> FALSE, preload |-> FALSE]]

\* lines 44-90: the Finding when the header is a non-empty string
hstsEnabled(d, h) ==
    LET maxAge == maxAgeOf(h)
        includeSubDomains == testIgnoreCase(h, IncludeSubDomainsKey)
        preload == testIgnoreCase(h, PreloadKey)
        maxAgeDays == maxAgeDaysOf(maxAge)
        c == subDomainsRule(maxAgeRule(maxAge), includeSubDomains)
    IN  [success |-> TRUE, domain |-> d, enabled |-> TRUE,
         severity |-> c.severity, status |-> c.status,
         message |-> IF Len(c.issues) > 0
                     THEN "HSTS is enabled but has " \o numberText(Num(Len(c.issues)))
                              \o " issue(s)"
                     ELSE "HSTS is properly configured (max-age: "
                              \o numberText(maxAgeDays) \o " days)",
         details |-> [header |-> Str(h), maxAge |-> maxAge, maxAgeDays |-> maxAgeDays,
                      includeSubDomains |-> includeSubDomains,
                      preload |-> preload, issues |-> c.issues]]

\* if (!hstsHeader): undefined and the empty string are both falsy
hstsHeaderFalsy(hh) == hh.type = "undefined" \/ hh.chars = <<>>

\* lines 25-90: the Finding built from a received response
hstsFinding(d, resp) ==
    LET hstsHeader == resp.hsts IN
    IF hstsHeaderFalsy(hstsHeader) THEN hstsNotEnabled(d)
    ELSE hstsEnabled(d, hstsHeader.chars)

\* lines 91-107: the catch block
hstsCatch(d, errorMessage) ==
    [success |-> FALSE, domain |-> d, enabled |-> FALSE,
     error |-> errorMessage, severity |-> "error", status |-> "Error",
     message |-> "Failed to check HSTS: " \o errorMessage,
     details |-> [header |-> Null, maxAge |-> Null,
                  includeSubDomains |-> FALSE, preload |-> FALSE]]

----------------------------------------------------------------------------
(* checkCookies: per-cookie analysis and aggregation                       *)
(* (cookie-checker.js, lines 25-106).                                      *)

RawLimit == 100

SecureToken == <<115, 101, 99, 117, 114, 101>>   \* 'secure'
HttpOnlyToken == <<104, 116, 116, 112, 111, 110, 108, 121>>   \* 'httponly'
SameSiteToken == <<115, 97, 109, 101, 115, 105, 116, 101>>   \* 'samesite'

\* cookieStr.split(';').map(part => part.trim())
cookiePartsOf(cookieStr) ==
    LET parts == split(cookieStr, Semicolon) IN [i \in 1..Len(parts) |-> trim(parts[i])]

\* const [nameValue] = cookieParts; const [name] = nameValue.split('=');
cookieNameOf(cookieParts) == split(cookieParts[1], EqualsSign)[1]

\* cookieParts.some(part => part.toLowerCase() === 'secure')
hasSecureIn(cookieParts) ==
    \E i \in 1..Len(cookieParts) : toLowerCase(cookieParts[i]) = SecureToken

\* cookieParts.some(part => part.toLowerCase() === 'httponly')
hasHttpOnlyIn(cookieParts) ==
    \E i \in 1..Len(cookieParts) : toLowerCase(cookieParts[i]) = HttpOnlyToken

\* cookieParts.some(part => part.toLowerCase().startsWith('samesite'))
hasSameSiteIn(cookieParts) ==
    \E i \in 1..Len(cookieParts) :
        startsWith(toLowerCase(cookieParts[i]), SameSiteToken)

\* lines 51-61: the missing-attribute list, in push order
cookieIssuesOf(hasSecure, hasHttpOnly, hasSameSite) ==
    (IF ~hasSecure THEN <<"Missing Secure flag">> ELSE <<>>)
    \o (IF ~hasHttpOnly THEN <<"Missing HttpOnly flag">> ELSE <<>>)
    \o (IF ~hasSameSite THEN <<"Missing SameSite attribute">> ELSE <<>>)

\* name || `Cookie ${index + 1}`   (n is the 1-based position)
CookiePlaceholder == <<67, 111, 111, 107, 105, 101, 32>>   \* 'Cookie '
displayName(name, n) ==
    IF name = <<>> THEN CookiePlaceholder \o numberChars(Num(n)) ELSE name

\* faulty variant of rawOf: >= for >, so a value of exactly 100 characters
\* gets the marker
rawOfInclusive(cookieStr) ==
    substring0(cookieStr, RawLimit)
        \o (IF Len(cookieStr) >= RawLimit THEN <<46, 46, 46>> ELSE <<>>)

\* cookieStr.substring(0, 100) + (cookieStr.length > 100 ? '...' : '')
Ellipsis == <<46, 46, 46>>   \* '...'
rawOf(cookieStr) ==
    substring0(cookieStr, RawLimit)
        \o (IF Len(cookieStr) > RawLimit THEN Ellipsis ELSE <<>>)

\* one pass of the forEach body (lines 43-76) for the n-th header value
analyzeCookie(cookieStr, n) ==
    LET cookieParts == cookiePartsOf(cookieStr)
        name == cookieNameOf(cookieParts)
        hasSecure == hasSecureIn(cookieParts)
        hasHttpOnly == hasHttpOnlyIn(cookieParts)
        hasSameSite == hasSameSiteIn(cookieParts)
    IN  [cookie |-> [name |-> displayName(name, n), secure |-> hasSecure,
                     httpOnly |-> hasHttpOnly, sameSite |-> hasSameSite],
         issue |-> [name |-> displayName(name, n),
                    issues |-> cookieIssuesOf(hasSecure, hasHttpOnly, hasSameSite),
                    raw |-> rawOf(cookieStr)]]

includes(seq, x) == \E i \in 1..Len(seq) : seq[i] = x

\* faulty variant of cookieSeverity: critical as soon as any cookie lacks Secure
cookieSeverityAny(issues, total) ==
    IF Len(issues) > 0
    THEN LET hasNoSecure(i) == includes(i.issues, "Missing Secure flag")
             noSecureCookies == SelectSeq(issues, hasNoSecure)
         IN  IF Len(noSecureCookies) > 0
             THEN [severity |-> "critical", status |-> "Critical Security Issues"]
             ELSE [severity |-> "warning", status |-> "Security Issues Found"]
    ELSE [severity |-> "ok", status |-> "All Cookies Secure"]

\* lines 79-92: the aggregate severity and status
cookieSeverity(issues, total) ==
    IF Len(issues) > 0
    THEN LET hasNoSecure(i) == includes(i.issues, "Missing Secure flag")
             noSecureCookies == SelectSeq(issues, hasNoSecure)
         IN  IF Len(noSecureCookies) = total
             THEN [severity |-> "critical", status |-> "Critical Security Issues"]
             ELSE [severity |-> "warning", status |-> "Security Issues Found"]
    ELSE [severity |-> "ok", status |-> "All Cookies Secure"]

\* faulty variant of cookieHeadersOf: the header read as a single value
cookieHeadersOfFirst(resp) ==
    IF resp.setCookie.type = "undefined" \/ resp.setCookie.items = <<>>
    THEN <<>>
    ELSE <<resp.setCookie.items[1]>>

\* response.headers['set-cookie'] || []
cookieHeadersOf(resp) ==
    IF resp.setCookie.type = "undefined" THEN <<>> ELSE resp.setCookie.items

\* lines 28-36: the Finding when there is no Set-Cookie value
noCookies(d) ==
    [success |-> TRUE, domain |-> d, cookieCount |-> 0, issues |-> <<>>,
     severity |-> "ok", status |-> "No Cookies Set",
     message |-> "No cookies found on this domain"]

\* lines 39-106: the Finding when there is at least one Set-Cookie value
cookiesFound(d, cookieHeaders) ==
    LET analysed == [i \in 1..Len(cookieHeaders) |-> analyzeCookie(cookieHeaders[i], i)]
        hasIssue(a) == Len(a.issue.issues) > 0
        flagged == SelectSeq(analysed, hasIssue)
        issues == [i \in 1..Len(flagged) |-> flagged[i].issue]
        cookies == [i \in 1..Len(analysed) |-> analysed[i].cookie]
        s == cookieSeverity(issues, Len(cookieHeaders))
    IN  [success |-> TRUE, domain |-> d, cookieCount |-> Len(cookieHeaders),
         cookies |-> cookies, issues |-> issues, issueCount |-> Len(issues),
         severity |-> s.severity, status |-> s.status,
         message |-> IF Len(issues) > 0
                     THEN "Found " \o numberText(Num(Len(issues)))
                              \o " cookie(s) with security issues out of "
                              \o numberText(Num(Len(cookieHeaders))) \o " total"
                     ELSE "All " \o numberText(Num(Len(cookieHeaders)))
                              \o " cookies are properly secured"]

\* lines 25-106: the Finding built from a received response
cookieFinding(d, resp) ==
    LET cookieHeaders == cookieHeadersOf(resp) IN
    IF Len(cookieHeaders) = 0 THEN noCookies(d) ELSE cookiesFound(d, cookieHeaders)

\* faulty variant of cookieCatch: the failure description is left out
cookieCatchSilent(d, errorMessage) ==
    [success |-> FALSE, domain |-> d, error |-> errorMessage,
     severity |-> "error", status |-> "Error",
     message |-> "Failed to check cookies"]

\* lines 107-116: the catch block
cookieCatch(d, errorMessage) ==
    [success |-> FALSE, domain |-> d, error |-> errorMessage,
     severity |-> "error", status |-> "Error",
     message |-> "Failed to check cookies: " \o errorMessage]

----------------------------------------------------------------------------
(* Inputs: the domains a caller passes, the responses and failures the     *)
(* HTTP client (axios.get) settles with.                                   *)

\* the argument of checkCookies / checkHSTS: strings with and without a
\* scheme, and non-strings (a caller that passes a missing parameter on)
DomainInputs ==
    { Str(<<97, 46, 105, 111>>), Str(<<104, 116, 116, 112, 58, 47, 47, 97, 46, 105, 111>>), Str(<<104, 116, 116, 112, 115, 58, 47, 47, 97, 46, 105, 111>>),   \* 'a.io', 'http://a.io', 'https://a.io'
      Str(<<72, 84, 84, 80, 83, 58, 47, 47, 97, 46, 105, 111>>), Str(<<104, 116, 116, 112, 58, 47, 97, 46, 105, 111>>), Str(<<>>),   \* 'HTTPS://a.io', 'http:/a.io'
      Undefined, Null, Num(7) }

\* error.message of a rejected axios.get
FetchErrors ==
    { "timeout of 10000ms exceeded", "getaddrinfo ENOTFOUND a.io",
      "Maximum number of redirects exceeded", "Network Error" }

\* n copies of the code unit c
Repeat(c, n) == [i \in 1..n |-> c]

\* a Set-Cookie value of exactly n characters that lacks HttpOnly
LongCookie(n) ==
    LET head == <<118, 61>>   \* 'v='
        tail == <<59, 32, 83, 101, 99, 117, 114, 101, 59, 32, 83, 97, 109, 101, 83, 105, 116, 101, 61, 76, 97, 120>>   \* '; Secure; SameSite=Lax'
    IN  head \o Repeat(120, n - Len(head) - Len(tail)) \o tail

CoreCookies ==
    { <<115, 105, 100, 61, 97, 98, 99, 59, 32, 83, 101, 99, 117, 114, 101, 59, 32, 72, 116, 116, 112, 79, 110, 108, 121, 59, 32, 83, 97, 109, 101, 83, 105, 116, 101, 61, 76, 97, 120>>,   \* 'sid=abc; Secure; HttpOnly; SameSite=Lax'
      <<115, 105, 100, 61, 97, 98, 99>>,   \* 'sid=abc'
      <<115, 105, 100, 61, 97, 98, 99, 59, 32, 83, 101, 99, 117, 114, 101>>,   \* 'sid=abc; Secure'
      <<105, 100, 61, 55, 59, 32, 72, 116, 116, 112, 79, 110, 108, 121, 59, 32, 83, 97, 109, 101, 83, 105, 116, 101, 61, 83, 116, 114, 105, 99, 116>>,   \* 'id=7; HttpOnly; SameSite=Strict'
      <<116, 61, 49, 59, 32, 115, 101, 99, 117, 114, 101, 32, 59, 72, 84, 84, 80, 79, 78, 76, 89, 59, 32, 32, 115, 97, 109, 101, 115, 105, 116, 101>>,   \* 't=1; secure ;HTTPONLY;  samesite'
      <<115, 101, 99, 117, 114, 101>>,   \* 'secure'
      <<115, 97, 109, 101, 115, 105, 116, 101, 95, 112, 114, 101, 102, 61, 49, 59, 32, 83, 101, 99, 117, 114, 101, 59, 32, 72, 116, 116, 112, 79, 110, 108, 121>>,   \* 'samesite_pref=1; Secure; HttpOnly'
      <<61, 118, 59, 32, 80, 97, 116, 104, 61, 47>> }   \* '=v; Path=/'

EdgeCookies ==
    { <<>>,
      <<104, 116, 116, 112, 111, 110, 108, 121, 59, 32, 83, 101, 99, 117, 114, 101, 59, 32, 83, 97, 109, 101, 83, 105, 116, 101, 61, 78, 111, 110, 101>>,   \* 'httponly; Secure; SameSite=None'
      <<83, 69, 67, 85, 82, 69, 59, 32, 72, 116, 116, 112, 79, 110, 108, 121>>,   \* 'SECURE; HttpOnly'
      <<115, 105, 100, 61, 97, 98, 99, 59, 32, 83, 101, 99, 117, 114, 101, 61, 49, 59, 32, 120, 72, 116, 116, 112, 79, 110, 108, 121, 59, 32, 83, 97, 109, 101, 83, 105, 116, 101>>,   \* 'sid=abc; Secure=1; xHttpOnly; SameSite'
      <<115, 105, 100, 61, 97, 98, 99, 59, 160, 83, 101, 99, 117, 114, 101, 59, 13, 10, 9, 72, 116, 116, 112, 79, 110, 108, 121, 8195, 59, 32, 65279, 83, 97, 109, 101, 83, 105, 116, 101, 61, 76, 97, 120>>,   \* 'sid=abc;\u00a0Secure;\r\n\tHttpOnly\u2003; \ufeffSameSite=Lax'
      <<115, 105, 100, 61, 97, 98, 99, 59, 32, 83, 101, 99, 117, 114, 101, 59, 32, 72, 116, 116, 112, 79, 110, 108, 121, 59, 32, 83, 65, 77, 69, 83, 304, 84, 69, 61, 76, 97, 120>>,   \* 'sid=abc; Secure; HttpOnly; SAMES\u0130TE=Lax'
      <<192, 931, 61, 49, 59, 32, 8490, 101, 121, 59, 32, 83, 69, 67, 85, 82, 69, 931>> }   \* '\u00c0\u03a3=1; \u212aey; SECURE\u03a3'
    \cup { LongCookie(n) : n \in (RawLimit - 1)..(RawLimit + MaxOver) }

RECURSIVE ListsUpTo(_, _)
ListsUpTo(S, n) ==
    IF n = 0 THEN {<<>>}
    ELSE LET shorter == ListsUpTo(S, n - 1)
         IN  shorter \cup { Append(l, c) : l \in shorter, c \in S }

\* the Set-Cookie occurrences of a response, as axios exposes them
CookieLists ==
    ListsUpTo(CoreCookies, MaxCookies)
        \cup { <<e>> : e \in EdgeCookies }
        \cup { <<c, e>> : c \in CoreCookies, e \in EdgeCookies }

SetCookieHeaders ==
    { [type |-> "undefined", items |-> <<>>] }
        \cup { [type |-> "array", items |-> l] : l \in CookieLists }

AgeValues == { 0, 1, 86399, 86400, 31535999, 31536000, 31536001, 63072000 }

MaxAgeDirectives ==
    { MaxAgeKey \o numberChars(Num(n)) : n \in AgeValues }
        \cup { <<>>, MaxAgeKey, <<77, 65, 88, 45, 65, 71, 69, 61, 51, 49, 53, 51, 54, 48, 48, 48>>, <<109, 97, 120, 45, 97, 103, 101, 61, 34, 51, 49, 53, 51, 54, 48, 48, 48, 34>>,   \* 'MAX-AGE=31536000', 'max-age="31536000"'
               <<109, 97, 120, 45, 97, 103, 101, 61, 59, 32, 109, 97, 120, 45, 97, 103, 101, 61, 54, 48, 48>>, <<109, 97, 120, 45, 97, 103, 101, 61, 48, 48, 48>>, <<109, 97, 120, 45, 97, 103, 101, 61, 48, 48, 51, 49, 53, 51, 54, 48, 48, 48>>,   \* 'max-age=; max-age=600', 'max-age=000', 'max-age=0031536000'
               <<109, 97, 120, 45, 97, 103, 101, 61, 57, 48, 48, 55, 49, 57, 57, 50, 53, 52, 55, 52, 48, 57, 57, 51>>, <<109, 97, 120, 45, 97, 103, 101, 61, 57, 57, 57, 57, 57, 57, 57, 57, 57, 57, 57, 57, 57, 57, 57, 57, 57, 57, 57, 57>>,   \* 'max-age=9007199254740993', 'max-age=99999999999999999999'
               <<109, 97, 120, 45, 97, 103, 101, 61, 49, 48, 48, 48, 48, 48, 48, 48, 48, 48, 48, 48, 48, 48, 48, 48, 48, 48, 48, 48, 48, 48, 48>>,   \* 'max-age=10000000000000000000000'
               <<109, 97, 120, 45, 97, 103, 101, 61, 49, 48, 48, 48, 48, 48, 48, 48, 48, 48, 48, 48, 48, 48, 48, 48, 48, 48, 48, 48, 48, 48, 48, 48, 48, 48, 48>> }   \* 'max-age=100000000000000000000000000'

DirectiveSuffixes ==
    { <<>>, <<59, 32, 105, 110, 99, 108, 117, 100, 101, 83, 117, 98, 68, 111, 109, 97, 105, 110, 115>>, <<59, 32, 73, 78, 67, 76, 85, 68, 69, 83, 85, 66, 68, 79, 77, 65, 73, 78, 83, 59, 32, 112, 114, 101, 108, 111, 97, 100>>,   \* '; includeSubDomains', '; INCLUDESUBDOMAINS; preload'
      <<59, 112, 114, 101, 108, 111, 97, 100>> }   \* ';preload'

\* the Strict-Transport-Security header of a response: absent, or a string
\* (the empty string included)
HstsHeaders ==
    { Undefined } \cup { Str(m \o s) : m \in MaxAgeDirectives, s \in DirectiveSuffixes }

PlainSetCookie == [type |-> "array", items |-> <<<<115, 105, 100, 61, 97, 98, 99>>>>]   \* 'sid=abc'
GoodHsts == Str(<<109, 97, 120, 45, 97, 103, 101, 61, 51, 49, 53, 51, 54, 48, 48, 48, 59, 32, 105, 110, 99, 108, 117, 100, 101, 83, 117, 98, 68, 111, 109, 97, 105, 110, 115>>)   \* 'max-age=31536000; includeSubDomains'

\* response.headers: every Set-Cookie list with the HSTS header absent or
\* well-formed, every HSTS header with no cookie or one cookie
Responses ==
    { [setCookie |-> c, hsts |-> h] : c \in SetCookieHeaders, h \in {Undefined, GoodHsts} }
        \cup { [setCookie |-> c, hsts |-> h] :
                   c \in { [type |-> "undefined", items |-> <<>>], PlainSetCookie },
                   h \in HstsHeaders }

----------------------------------------------------------------------------
(* The invocation as a state machine.  pc: "idle" before the call,         *)
(* "awaiting" while the promise of axios.get is pending, "done" once the   *)
(* async function has resolved with a Finding, "thrown" had it rejected.   *)

None == [type |-> "none"]
Error(m) == [type |-> "error", message |-> m]

Init ==
    /\ pc = "idle"
    /\ fn = "none"
    /\ domain = None
    /\ url = None
    /\ fetchCount = 0
    /\ response = None
    /\ failure = None
    /\ result = None

\* checkCookies(domain), up to the await: lines 9-16.  A domain that is
\* not a string makes url.startsWith raise inside the try block, and the
\* catch block returns at once.
checkCookiesCall(d) ==
    /\ pc = "idle"
    /\ fn' = "checkCookies"
    /\ domain' = d
    /\ IF d.type = "string"
       THEN /\ url' = Str(normalizeUrl(d.chars))
            /\ fetchCount' = fetchCount + 1
            /\ pc' = "awaiting"
            /\ UNCHANGED <<response, failure, result>>
       ELSE /\ failure' = Error(startsWithTypeError(d))
            /\ result' = cookieCatch(d, startsWithTypeError(d))
            /\ pc' = "done"
            /\ UNCHANGED <<url, fetchCount, response>>

\* axios.get resolved: lines 25-106 run to the return
checkCookiesResolved(resp) ==
    /\ pc = "awaiting"
    /\ fn = "checkCookies"
    /\ response' = resp
    /\ result' = cookieFinding(domain, resp)
    /\ pc' = "done"
    /\ UNCHANGED <<fn, domain, url, fetchCount, failure>>

\* faulty variant of checkCookiesRejected: the request is issued again
checkCookiesRejectedRetry(e) ==
    /\ pc = "awaiting"
    /\ fn = "checkCookies"
    /\ failure' = Error(e)
    /\ fetchCount' = fetchCount + 1
    /\ pc' = "awaiting"
    /\ UNCHANGED <<fn, domain, url, response, result>>

\* axios.get rejected: the catch block, lines 107-116
checkCookiesRejected(e) ==
    /\ pc = "awaiting"
    /\ fn = "checkCookies"
    /\ failure' = Error(e)
    /\ result' = cookieCatch(domain, e)
    /\ pc' = "done"
    /\ UNCHANGED <<fn, domain, url, fetchCount, response>>

\* checkHSTS(domain), up to the await: lines 9-16
checkHSTSCall(d) ==
    /\ pc = "idle"
    /\ fn' = "checkHSTS"
    /\ domain' = d
    /\ IF d.type = "string"
       THEN /\ url' = Str(normalizeUrl(d.chars))
            /\ fetchCount' = fetchCount + 1
            /\ pc' = "awaiting"
            /\ UNCHANGED <<response, failure, result>>
       ELSE /\ failure' = Error(startsWithTypeError(d))
            /\ result' = hstsCatch(d, startsWithTypeError(d))
            /\ pc' = "done"
            /\ UNCHANGED <<url, fetchCount, response>>

\* axios.get resolved: lines 25-90 run to the return
checkHSTSResolved(resp) ==
    /\ pc = "awaiting"
    /\ fn = "checkHSTS"
    /\ response' = resp
    /\ result' = hstsFinding(domain, resp)
    /\ pc' = "done"
    /\ UNCHANGED <<fn, domain, url, fetchCount, failure>>

\* axios.get rejected: the catch block, lines 91-107
checkHSTSRejected(e) ==
    /\ pc = "awaiting"
    /\ fn = "checkHSTS"
    /\ failure' = Error(e)
    /\ result' = hstsCatch(domain, e)
    /\ pc' = "done"
    /\ UNCHANGED <<fn, domain, url, fetchCount, response>>

Next ==
    \/ \E d \in DomainInputs : checkCookiesCall(d)
    \/ \E resp \in Responses : checkCookiesResolved(resp)
    \/ \E e \in FetchErrors : checkCookiesRejected(e)
    \/ \E d \in DomainInputs : checkHSTSCall(d)
    \/ \E resp \in Responses : checkHSTSResolved(resp)
    \/ \E e \in FetchErrors : checkHSTSRejected(e)

Spec == Init /\ [][Next]_vars

----------------------------------------------------------------------------
(* Vocabulary of the properties.                                           *)

CookiesDone == pc = "done" /\ fn = "checkCookies"
HstsDone == pc = "done" /\ fn = "checkHSTS"

\* the invocation returned a Finding built from a received response
CookiesSucceeded == CookiesDone /\ response # None
HstsSucceeded == HstsDone /\ response # None

\* the Set-Cookie occurrences of the received response
SetCookieCount ==
    IF response.setCookie.type = "undefined" THEN 0 ELSE Len(response.setCookie.items)

\* cookie record c is missing at least one of the three attributes
Flawed(c) == ~c.secure \/ ~c.httpOnly \/ ~c.sameSite

----------------------------------------------------------------------------
(* C1 *)

\* C1: in every successful checkCookies Finding for a response with at least
\* one Set-Cookie value, severity is 'ok' (status 'All Cookies Secure') iff
\* no cookie is missing an attribute, 'critical' (status 'Critical Security
\* Issues') iff every cookie lacks Secure, 'warning' (status 'Security Issues
\* Found') iff some cookie is missing an attribute while some cookie carries
\* Secure; no other severity occurs.
C1_CookieSeverity ==
    (CookiesSucceeded /\ SetCookieCount > 0) =>
        LET cs == result.cookies
            anyFlawed == \E i \in 1..Len(cs) : Flawed(cs[i])
            allLackSecure == \A i \in 1..Len(cs) : ~cs[i].secure
        IN  /\ result.success
            /\ result.severity \in {"ok", "warning", "critical"}
            /\ (result.severity = "ok") <=> ~anyFlawed
            /\ (result.severity = "critical") <=> allLackSecure
            /\ (result.severity = "warning") <=> (anyFlawed /\ ~allLackSecure)
            /\ (result.severity = "ok") <=> (result.status = "All Cookies Secure")
            /\ (result.severity = "critical") <=> (result.status = "Critical Security Issues")
            /\ (result.severity = "warning") <=> (result.status = "Security Issues Found")

\* two cookies, one without Secure and one with it: a warning
C1_Witness ==
    /\ CookiesSucceeded
    /\ SetCookieCount = 2
    /\ ~result.cookies[1].secure
    /\ result.cookies[2].secure
    /\ result.severity = "warning"

----------------------------------------------------------------------------
(* C2 *)

\* C2: with the header present and parsed, severity is 'critical' with
\* status 'HSTS Misconfigured' when maxAge = 0, with or without
\* includeSubDomains; 'warning' with status 'HSTS Weak Configuration' when
\* 0 < maxAge < 31536000; 'warning' when maxAge >= 31536000 without
\* includeSubDomains; 'ok' with status 'HSTS Enabled' only when
\* maxAge >= 31536000 with includeSubDomains.
C2_HstsSeverity ==
    (HstsSucceeded /\ result.enabled) =>
        LET m == result.details.maxAge
            inc == result.details.includeSubDomains
            zero == Num(0)
            year == Num(31536000)
        IN  /\ (m = zero) =>
                   result.severity = "critical" /\ result.status = "HSTS Misconfigured"
            /\ (numberLess(zero, m) /\ numberLess(m, year)) =>
                   result.severity = "warning" /\ result.status = "HSTS Weak Configuration"
            /\ (~numberLess(m, year) /\ ~inc) => result.severity = "warning"
            /\ (~numberLess(m, year) /\ inc) =>
                   result.severity = "ok" /\ result.status = "HSTS Enabled"
            /\ (result.severity = "ok") => (~numberLess(m, year) /\ inc)

\* max-age=0 without includeSubDomains stays critical
C2_Witness ==
    /\ HstsSucceeded
    /\ result.enabled
    /\ result.details.maxAge = Num(0)
    /\ ~result.details.includeSubDomains
    /\ result.details.header.chars # <<>>
    /\ maxAgeMatch(result.details.header.chars).matched
    /\ result.severity = "critical"

----------------------------------------------------------------------------
(* C3 *)

\* C3: every failure (a rejected fetch, an exception raised while
\* normalizing) ends in a returned Finding with success = false, severity
\* 'error' and a message that embeds the failure description; no invocation
\* ends by propagating the exception.  For checkHSTS the Finding also has
\* enabled = false and details.header, details.maxAge null.
C3_FailureBecomesFinding ==
    /\ pc # "thrown"
    /\ (failure # None) =>
           /\ pc = "done"
           /\ result.success = FALSE
           /\ result.severity = "error"
           /\ result.error = failure.message
           /\ \/ fn = "checkCookies"
                 /\ result.message = "Failed to check cookies: " \o failure.message
              \/ fn = "checkHSTS"
                 /\ result.message = "Failed to check HSTS: " \o failure.message
                 /\ result.enabled = FALSE
                 /\ result.details.header = Null
                 /\ result.details.maxAge = Null

\* a timed-out fetch of checkHSTS, reported as an error Finding
C3_Witness ==
    /\ HstsDone
    /\ fetchCount = 1
    /\ failure = Error("timeout of 10000ms exceeded")
    /\ result.severity = "error"

----------------------------------------------------------------------------
(* C4 *)

\* C4: in every successful checkCookies Finding, cookieCount is the number
\* of Set-Cookie occurrences of the response, duplicates and malformed
\* entries counted; none gives cookieCount 0, severity 'ok', status 'No
\* Cookies Set'; issueCount never exceeds cookieCount.
C4_CookieCount ==
    CookiesSucceeded =>
        /\ result.success
        /\ result.cookieCount = SetCookieCount
        /\ (SetCookieCount = 0) =>
               result.severity = "ok" /\ result.status = "No Cookies Set"
        /\ (result.status = "No Cookies Set") => SetCookieCount = 0
        /\ (SetCookieCount > 0) =>
               /\ result.issueCount = Len(result.issues)
               /\ result.issueCount <= result.cookieCount
               /\ Len(result.cookies) = result.cookieCount

\* the same Set-Cookie value twice, both counted and both flagged
C4_Witness ==
    /\ CookiesSucceeded
    /\ SetCookieCount = 2
    /\ response.setCookie.items[1] = response.setCookie.items[2]
    /\ result.cookieCount = 2
    /\ result.issueCount = 2

----------------------------------------------------------------------------
(* C5 *)

\* C5: for every successful fetch, checkHSTS returns enabled = false with
\* severity 'critical' and status 'HSTS Not Enabled' exactly when the
\* Strict-Transport-Security header is absent from the response; whenever
\* the header is present, whatever its value, the Finding has enabled = true.
C5_NotEnabledIffAbsent ==
    HstsSucceeded =>
        LET absent == response.hsts.type = "undefined" IN
        /\ result.success
        /\ absent => /\ result.enabled = FALSE
                     /\ result.severity = "critical"
                     /\ result.status = "HSTS Not Enabled"
        /\ ~absent => result.enabled = TRUE

----------------------------------------------------------------------------
(* C6 *)

\* C6: an invocation whose domain is a string issues exactly one outbound
\* fetch, and one whose domain is not a string issues none (it fails in URL
\* normalisation, before the request).  The fetch is pending exactly while
\* the invocation awaits; a Finding returned after a rejected fetch is an
\* 'error' Finding reached with that single request and no retry, and a
\* Finding returned after a response was reached with that single request.
C6_SingleFetch ==
    /\ fetchCount <= 1
    /\ (pc = "awaiting") => (fetchCount = 1 /\ result = None /\ failure = None)
    /\ (pc = "done" /\ domain.type = "string") => fetchCount = 1
    /\ (pc = "done" /\ domain.type # "string") =>
           (fetchCount = 0 /\ response = None /\ result.severity = "error")
    /\ (pc = "done" /\ failure # None) => result.severity = "error"
    /\ (pc = "done" /\ response # None) => (fetchCount = 1 /\ failure = None)

\* a rejected fetch of checkCookies: one request, then the error Finding
C6_Witness ==
    /\ CookiesDone
    /\ domain.type = "string"
    /\ failure = Error("Network Error")
    /\ fetchCount = 1
    /\ result.severity = "error"

\* C6 as stated: every invocation, whatever its domain, has issued exactly
\* one outbound fetch when it returns its Finding
C6_EveryInvocationFetchesOnce ==
    (pc = "done") => fetchCount = 1

----------------------------------------------------------------------------
(* C7 *)

\* C7: the URL dispatched is the input unchanged when the input starts with
\* 'http://' or 'https://', and 'https://' followed by the input otherwise;
\* the Finding's domain is the input itself in every outcome.
C7_UrlNormalization ==
    /\ (pc \in {"awaiting", "done"} /\ domain.type = "string") =>
           LET d == domain.chars
               http == <<104, 116, 116, 112, 58, 47, 47>>   \* 'http://'
               https == <<104, 116, 116, 112, 115, 58, 47, 47>>   \* 'https://'
               prefixed == \/ (Len(d) >= 7 /\ SubSeq(d, 1, 7) = http)
                           \/ (Len(d) >= 8 /\ SubSeq(d, 1, 8) = https)
           IN  /\ url.type = "string"
               /\ prefixed => url.chars = d
               /\ ~prefixed => url.chars = https \o d
    /\ (pc = "done") => result.domain = domain

\* 'a.io' dispatched as 'https://a.io' and echoed back as 'a.io'
C7_Witness ==
    /\ pc = "done"
    /\ response # None
    /\ domain = Str(<<97, 46, 105, 111>>)   \* 'a.io'
    /\ url = Str(<<104, 116, 116, 112, 115, 58, 47, 47, 97, 46, 105, 111>>)   \* 'https://a.io'
    /\ result.domain = Str(<<97, 46, 105, 111>>)   \* 'a.io'

----------------------------------------------------------------------------
(* C8 *)

\* position in the response of the Set-Cookie value behind the k-th issue
\* entry: the k-th cookie that is missing an attribute
IssueSource(k) ==
    CHOOSE j \in 1..Len(result.cookies) :
        /\ Flawed(result.cookies[j])
        /\ Cardinality({i \in 1..j : Flawed(result.cookies[i])}) = k

\* C8: the raw field of an issue entry is the Set-Cookie value verbatim when
\* the value has at most 100 characters, and its first 100 characters
\* followed by '...' when it has more; raw never exceeds 103 characters and
\* differs from the value exactly when it was truncated.
C8_RawTruncation ==
    (CookiesSucceeded /\ SetCookieCount > 0) =>
        \A k \in 1..Len(result.issues) :
            LET value == response.setCookie.items[IssueSource(k)]
                raw == result.issues[k].raw
            IN  /\ (Len(value) <= 100) => raw = value
                /\ (Len(value) > 100) => raw = SubSeq(value, 1, 100) \o <<46, 46, 46>>
                /\ Len(raw) <= 103
                /\ (raw = value) <=> (Len(value) <= 100)

\* a flagged Set-Cookie value of 101 characters, cut to 100 plus the marker
C8_Witness ==
    /\ CookiesSucceeded
    /\ SetCookieCount = 1
    /\ Len(response.setCookie.items[1]) = 101
    /\ Len(result.issues) = 1
    /\ Len(result.issues[1].raw) = 103

----------------------------------------------------------------------------
(* C9 *)

\* the trimmed ';'-separated segments of a Set-Cookie value after the first
AttributeSegments(value) ==
    LET parts == split(value, 59) IN
    { toLowerCase(trim(parts[i])) : i \in 2..Len(parts) }

\* C9: attribute detection looks only at the segments after the first: a
\* cookie is reported as carrying Secure / HttpOnly / SameSite exactly when
\* one of its remaining segments is 'secure' / is 'httponly' / begins with
\* 'samesite' (case-insensitively); the name=value segment never counts.
C9_FirstSegmentIgnored ==
    (CookiesSucceeded /\ SetCookieCount > 0) =>
        \A j \in 1..Len(result.cookies) :
            LET attrs == AttributeSegments(response.setCookie.items[j])
                c == result.cookies[j]
            IN  /\ c.secure <=> (<<115, 101, 99, 117, 114, 101>> \in attrs)   \* 'secure'
                /\ c.httpOnly <=> (<<104, 116, 116, 112, 111, 110, 108, 121>> \in attrs)   \* 'httponly'
                /\ c.sameSite <=>
                       (\E a \in attrs : Len(a) >= 8 /\ SubSeq(a, 1, 8) = <<115, 97, 109, 101, 115, 105, 116, 101>>)   \* 'samesite'

----------------------------------------------------------------------------
(* C10 *)

\* C10: in every checkHSTS Finding with enabled = true, severity is 'ok'
\* iff details.issues is empty iff the message is the 'properly configured'
\* form; a non-empty issues list is reported by the message with its exact
\* length, has at most two entries, and the includeSubDomains issue comes
\* after the max-age issue.
C10_HstsIssuesConsistent ==
    (HstsSucceeded /\ result.enabled) =>
        LET issues == result.details.issues
            subIssue == "includeSubDomains directive not set"
            proper == "HSTS is properly configured (max-age: "
                          \o numberText(result.details.maxAgeDays) \o " days)"
        IN  /\ (result.severity = "ok") <=> (issues = <<>>)
            /\ (issues = <<>>) <=> (result.message = proper)
            /\ (issues # <<>>) =>
                   result.message = "HSTS is enabled but has "
                                        \o numberText(Num(Len(issues))) \o " issue(s)"
            /\ Len(issues) <= 2
            /\ \A i \in 1..Len(issues) : (issues[i] = subIssue) => (i = Len(issues))
            /\ (Len(issues) = 2) => (issues[2] = subIssue /\ issues[1] # subIssue)
            /\ (~result.details.includeSubDomains) <=>
                   (issues # <<>> /\ issues[Len(issues)] = subIssue)

\* max-age=86400 without includeSubDomains: a warning with two issues
C10_Witness ==
    /\ HstsSucceeded
    /\ result.enabled
    /\ result.details.maxAge = Num(86400)
    /\ Len(result.details.issues) = 2
    /\ result.severity = "warning"
    /\ result.message = "HSTS is enabled but has 2 issue(s)"

====
